---- MODULE Spec2Model ----
(***************************************************************************)
(* Model of the MCP "heritage" gateway (parent.js) and of the upstream     *)
(* children it aggregates (mcp-child-a.js, mcp-child-b.js).                *)
(*                                                                         *)
(* parent.js connects one MCP client per configured child, lists the       *)
(* child's tools, translates every tool's JSON Schema into a zod schema,   *)
(* registers a proxy tool on one shared McpServer and then serves POST     *)
(* /mcp, creating one stateless transport per inbound request.             *)
(*                                                                         *)
(* The calls into @modelcontextprotocol/sdk and zod are modelled at the    *)
(* call sites of parent.js, with the behaviour those libraries have for    *)
(* the calls the program makes.                                            *)
(***************************************************************************)
EXTENDS Integers, Sequences, FiniteSets, TLC

(***************************************************************************)
(* Bounds of the model.                                                    *)
(***************************************************************************)
\* Inbound POST /mcp requests the model lets arrive.
MaxRequests == 2
\* Longest tool list an upstream returns from listTools().
MaxTools == 2

(***************************************************************************)
(* JSON values.  A value is a record [kind, val]; an object's val is a     *)
(* function from its keys to values, an array's val a sequence.            *)
(***************************************************************************)
Undefined == [kind |-> "undefined", val |-> "undefined"]
Null == [kind |-> "null", val |-> "null"]
Str(s) == [kind |-> "string", val |-> s]
Num(n) == [kind |-> "number", val |-> n]
Bool(b) == [kind |-> "boolean", val |-> b]
Arr(seq) == [kind |-> "array", val |-> seq]
Obj(f) == [kind |-> "object", val |-> f]
EmptyObj == Obj([k \in {} |-> Null])

\* The numerals the model uses; Number.isInteger of each.
Integral == {"0", "1", "2"}

(***************************************************************************)
(* zod schemas, as the trees the z.* constructors build.                   *)
(***************************************************************************)
ZAny == [z |-> "any"]
ZString == [z |-> "string"]
ZEnum(options) == [z |-> "enum", options |-> options]
ZNumber == [z |-> "number"]
ZInt == [z |-> "int"]
ZBoolean == [z |-> "boolean"]
ZNull == [z |-> "null"]
ZArray(element) == [z |-> "array", element |-> element]
ZObject(shape) == [z |-> "object", shape |-> shape]
ZRecordAny == [z |-> "record"]
ZNullable(inner) == [z |-> "nullable", inner |-> inner]
ZOptional(inner) == [z |-> "optional", inner |-> inner]

Range(seq) == {seq[i] : i \in DOMAIN seq}

Ok(data) == [success |-> TRUE, data |-> data]
Fail == [success |-> FALSE, data |-> Undefined]

(***************************************************************************)
(* schema.safeParse(value): success, and the parsed data.  z.object        *)
(* strips the keys its shape does not declare; z.any() and .optional()     *)
(* accept an absent value.                                                 *)
(***************************************************************************)
RECURSIVE safeParse(_, _)
safeParse(zs, v) ==
    CASE zs.z = "any" -> Ok(v)
      [] zs.z = "string" -> IF v.kind = "string" THEN Ok(v) ELSE Fail
      [] zs.z = "enum" ->
            IF v.kind = "string" /\ v.val \in Range(zs.options) THEN Ok(v) ELSE Fail
      [] zs.z = "number" -> IF v.kind = "number" THEN Ok(v) ELSE Fail
      [] zs.z = "int" ->
            IF v.kind = "number" /\ v.val \in Integral THEN Ok(v) ELSE Fail
      [] zs.z = "boolean" -> IF v.kind = "boolean" THEN Ok(v) ELSE Fail
      [] zs.z = "null" -> IF v.kind = "null" THEN Ok(v) ELSE Fail
      [] zs.z = "nullable" ->
            IF v.kind = "null" THEN Ok(v) ELSE safeParse(zs.inner, v)
      [] zs.z = "optional" ->
            IF v.kind = "undefined" THEN Ok(v) ELSE safeParse(zs.inner, v)
      [] zs.z = "record" -> IF v.kind = "object" THEN Ok(v) ELSE Fail
      [] zs.z = "array" ->
            IF v.kind # "array" THEN Fail
            ELSE LET parsed == [i \in DOMAIN v.val |-> safeParse(zs.element, v.val[i])]
                 IN  IF \A i \in DOMAIN parsed : parsed[i].success
                     THEN Ok(Arr([i \in DOMAIN parsed |-> parsed[i].data]))
                     ELSE Fail
      [] zs.z = "object" ->
            IF v.kind # "object" THEN Fail
            ELSE LET field(k) == IF k \in DOMAIN v.val THEN v.val[k] ELSE Undefined
                     parsed == [k \in DOMAIN zs.shape |-> safeParse(zs.shape[k], field(k))]
                     kept == {k \in DOMAIN zs.shape : k \in DOMAIN v.val}
                 IN  IF \A k \in DOMAIN parsed : parsed[k].success
                     THEN Ok(Obj([k \in kept |-> parsed[k].data]))
                     ELSE Fail

(***************************************************************************)
(* JSON Schema nodes.  A node is a record holding the members the schema   *)
(* has; a single "type" is the member type, a list of types the member     *)
(* types (Array.isArray(type)).  The member required is the set of names   *)
(* of a required that is an array; a truthy required that is not an array  *)
(* and has no includes method (true, a number, an object) is the member    *)
(* requiredNonArray.  An enum that is not an array is the member           *)
(* enumNonArray.  NoSchema is a schema that is absent or not an object.    *)
(***************************************************************************)
NoSchema == [absent |-> TRUE]

\* Object.entries() of a properties without entries: {}, a number, true.
NoEntries == [k \in {} |-> NoSchema]

\* required.includes is not a function: the TypeError the translation ends in.
TypeError == [z |-> "TypeError"]

Has(schema, member) == member \in DOMAIN schema

\* { ...propertySchema, type: t }
WithType(schema, t) ==
    [m \in (DOMAIN schema \ {"types"}) \cup {"type"} |->
        IF m = "type" THEN t ELSE schema[m]]

\* { ...propertySchema, type: undefined }: the first entry of an empty list
WithoutType(schema) ==
    [m \in DOMAIN schema \ {"types", "type"} |-> schema[m]]

\* Variant: a list of types with null in it is translated as its first
\* non-null type, made nullable, however many non-null types it lists.
handleMultipleTypesAnyNull(propertySchema) ==
    LET type == propertySchema.types
        nonNullTypes == SelectSeq(type, LAMBDA t : t # "null")
    IN  IF "null" \in Range(type) /\ Len(nonNullTypes) >= 1
        THEN [schema |-> WithType(propertySchema, nonNullTypes[1]), nullable |-> TRUE]
        ELSE [schema |-> IF Len(type) = 0 THEN WithoutType(propertySchema)
                         ELSE WithType(propertySchema, type[1]),
              nullable |-> FALSE]

\* if (Array.isArray(type)) { ... }: the node a list of types is translated
\* as, and whether .nullable() is applied to its translation.
handleMultipleTypes(propertySchema) ==
    LET type == propertySchema.types
        nonNullTypes == SelectSeq(type, LAMBDA t : t # "null")
    IN  IF "null" \in Range(type) /\ Len(nonNullTypes) = 1
        THEN [schema |-> WithType(propertySchema, nonNullTypes[1]), nullable |-> TRUE]
        ELSE [schema |-> IF Len(type) = 0 THEN WithoutType(propertySchema)
                         ELSE WithType(propertySchema, type[1]),
              nullable |-> FALSE]

\* Variant: the enum list is not looked at.
caseStringPlain(propertySchema) == ZString

\* case 'string': z.string(), or z.enum(propertySchema.enum) of an enum that
\* is an array.
caseString(propertySchema) ==
    IF Has(propertySchema, "enum") THEN ZEnum(propertySchema.enum) ELSE ZString

\* Variant: the nullable mark is not looked at.
handleNullableNever(propertySchema, type, zodSchema) == zodSchema

\* Handle nullable: .nullable() for nullable === true on a type other than
\* 'null'.
handleNullable(propertySchema, type, zodSchema) ==
    IF type # "null" /\ Has(propertySchema, "nullable") /\ propertySchema.nullable = TRUE
    THEN ZNullable(zodSchema)
    ELSE zodSchema

RECURSIVE jsonSchemaPropertyToZod(_)
jsonSchemaPropertyToZod(propertySchema) ==
    IF Has(propertySchema, "absent") THEN ZAny
    ELSE IF Has(propertySchema, "types") THEN
        LET single == handleMultipleTypes(propertySchema)
        IN  IF single.nullable THEN ZNullable(jsonSchemaPropertyToZod(single.schema))
            ELSE jsonSchemaPropertyToZod(single.schema)
    ELSE
        LET type == IF Has(propertySchema, "type") THEN propertySchema.type ELSE "undefined"
            zodSchema ==
                CASE type = "string" -> caseString(propertySchema)
                  [] type = "number" -> ZNumber
                  [] type = "integer" -> ZInt
                  [] type = "boolean" -> ZBoolean
                  [] type = "array" ->
                        IF Has(propertySchema, "items")
                        THEN ZArray(jsonSchemaPropertyToZod(propertySchema.items))
                        ELSE ZArray(ZAny)
                  [] type = "object" ->
                        IF Has(propertySchema, "properties")
                        THEN ZObject([key \in DOMAIN propertySchema.properties |->
                                jsonSchemaPropertyToZod(propertySchema.properties[key])])
                        ELSE ZRecordAny
                  [] type = "null" -> ZNull
                  [] OTHER -> ZAny
        IN  handleNullable(propertySchema, type, zodSchema)

(***************************************************************************)
(* jsonSchemaToZodSchema: the inputSchema handed to registerTool.  A raw   *)
(* shape (a plain object of zod schemas) is what registerTool wraps into   *)
(* z.object(shape); anything else is the passthrough z.record(z.any()).    *)
(***************************************************************************)
\* Variant: every property is made optional, listed in required or not.
jsonSchemaToZodSchemaAllOptional(jsonSchema) ==
    IF Has(jsonSchema, "absent") \/ ~Has(jsonSchema, "type") THEN ZRecordAny
    ELSE IF jsonSchema.type # "object" THEN ZRecordAny
    ELSE
        LET properties == IF Has(jsonSchema, "properties") THEN jsonSchema.properties
                          ELSE NoEntries
            shape == [key \in DOMAIN properties |->
                        ZOptional(jsonSchemaPropertyToZod(properties[key]))]
        IN  IF DOMAIN shape = {} THEN ZRecordAny ELSE ZObject(shape)

NotRequired(zodProperty) == ZOptional(zodProperty)

jsonSchemaToZodSchema(jsonSchema) ==
    IF Has(jsonSchema, "absent") \/ ~Has(jsonSchema, "type") THEN ZRecordAny
    ELSE IF jsonSchema.type # "object" THEN ZRecordAny
    ELSE
        LET properties == IF Has(jsonSchema, "properties") THEN jsonSchema.properties
                          ELSE NoEntries
            required == IF Has(jsonSchema, "required") THEN jsonSchema.required ELSE {}
            shape == [key \in DOMAIN properties |->
                        IF key \notin required
                        THEN NotRequired(jsonSchemaPropertyToZod(properties[key]))
                        ELSE jsonSchemaPropertyToZod(properties[key])]
        IN  IF DOMAIN shape = {} THEN ZRecordAny
            ELSE IF Has(jsonSchema, "requiredNonArray") THEN TypeError
            ELSE ZObject(shape)

(***************************************************************************)
(* Configuration and the upstream children.                                *)
(***************************************************************************)
\* config.childrenConfig: mcp-child-a-http, mcp-child-b-http, in this order.
NumChildren == 2
childrenConfig == 1 .. NumChildren

\* What listTools() of a child returns for its tool: child A registers "joke"
\* with no inputSchema (listed as an empty object schema), child B registers
\* "name-age" with the shape { name: z.string() }.
JokeTool ==
    [name |-> "joke",
     inputSchema |-> [type |-> "object", properties |-> [k \in {} |-> NoSchema]]]
NameAgeTool ==
    [name |-> "name-age",
     inputSchema |-> [type |-> "object",
                      properties |-> ("name" :> [type |-> "string"]),
                      required |-> {"name"}]]

\* The descriptors an upstream may advertise, and the lists it may return.
AdvertisedTools == {JokeTool, NameAgeTool}
ToolLists == UNION {[1 .. n -> AdvertisedTools] : n \in 0 .. MaxTools}

\* The text content a child answers a tools/call of its tool with: child A
\* the joke's setup and punchline, child B the predicted age.
childResult(name) ==
    IF name = "joke" THEN "setup-punchline" ELSE "age"
Failed == "failed"

\* The tools/call requests a caller may post: a tool name and raw arguments.
Call(name, arguments) == [name |-> name, arguments |-> arguments]
InboundCalls ==
    { Call("joke", EmptyObj),
      Call("name-age", EmptyObj),
      Call("name-age", Obj("name" :> Num("1"))),
      Call("name-age", Obj(("name" :> Str("sam")) @@ ("extra" :> Str("x")))),
      Call("unknown-tool", EmptyObj) }

Requests == 1 .. MaxRequests
NoTransport == 0

(***************************************************************************)
(* State.                                                                  *)
(***************************************************************************)
VARIABLES
    mainPc,           \* where main() stands: connect, listTools, listen, serving, exited
    cfgIndex,         \* the childrenConfig entry the loop of main() is at
    connects,         \* per child: how many times client.connect() has resolved
    clientOpen,       \* per child: its client connection is established and open
    advertised,       \* per child: the tools its listTools() returned
    registeredTools,  \* the McpServer's tools: name -> [inputSchema, client, name]
    serverTransport,  \* the transport the shared McpServer is connected to
    hpc,              \* per request: where its app.post handler stands
    input,            \* per request: the tools/call it carries
    transport,        \* per request: its StreamableHTTPServerTransport
    resClosed,        \* per request: res has emitted 'close'
    headersSent,      \* per request: res.headersSent
    call,             \* per request: the tool call the server dispatched
    reply,            \* per request: what the upstream answered its invocation
    response,         \* per request: what was written to its caller
    invocations,      \* the client.callTool() calls issued, in order
    tpc,              \* the translator on its own: schema, translated, parsed
    schemaIn,         \* the JSON Schema node handed to the translator
    validator,        \* the zod schema the translator returned for it
    argument,         \* the value handed to validator.safeParse()
    verdict           \* what safeParse() returned for it

vars ==
    <<mainPc, cfgIndex, connects, clientOpen, advertised, registeredTools,
      serverTransport, hpc, input, transport, resClosed, headersSent, call, reply,
      response, invocations, tpc, schemaIn, validator, argument, verdict>>

buildVars == <<cfgIndex, connects, clientOpen, advertised, registeredTools>>
requestVars ==
    <<serverTransport, hpc, input, transport, resClosed, headersSent, call, reply,
      response, invocations>>
translatorVars == <<tpc, schemaIn, validator, argument, verdict>>

NoInput == Call("none", Undefined)
\* What a caller is answered: a tool result, an error of the tools/call
\* handler, or the JSON-RPC error envelope of the catch block.
NoResponse == [kind |-> "none", body |-> "none", code |-> 0]
Result(payload) == [kind |-> "result", body |-> payload, code |-> 0]
ToolError(what) == [kind |-> "toolError", body |-> what, code |-> 0]
RpcError(code) == [kind |-> "rpcError", body |-> "Internal server error", code |-> code]
\* error.code of the envelope the catch block writes.
InternalError == -32603

\* No request has arrived.
noRequest ==
    /\ serverTransport = NoTransport
    /\ hpc = [r \in Requests |-> "idle"]
    /\ input = [r \in Requests |-> NoInput]
    /\ transport = [r \in Requests |-> "none"]
    /\ resClosed = [r \in Requests |-> FALSE]
    /\ headersSent = [r \in Requests |-> FALSE]
    /\ call = [r \in Requests |-> "none"]
    /\ reply = [r \in Requests |-> "none"]
    /\ response = [r \in Requests |-> NoResponse]
    /\ invocations = <<>>

\* main() is entered: no client, no registered tool, no request.
mainInit ==
    /\ mainPc = "connect"
    /\ cfgIndex = 1
    /\ connects = [u \in childrenConfig |-> 0]
    /\ clientOpen = [u \in childrenConfig |-> FALSE]
    /\ advertised = [u \in childrenConfig |-> <<>>]
    /\ registeredTools = [n \in {} |-> 0]
    /\ noRequest

\* The translator has been handed nothing.
NoValidator == [z |-> "none"]
translatorIdle ==
    /\ tpc = "idle"
    /\ schemaIn = NoSchema
    /\ validator = NoValidator
    /\ argument = Undefined
    /\ verdict = Fail

Init == mainInit /\ translatorIdle

(***************************************************************************)
(* main(): the discovery loop.                                             *)
(***************************************************************************)
\* Variant: a failed connect is swallowed and the loop goes on.
connectChildHttpIgnoreFailure(cfg, ok) ==
    /\ connects' = [connects EXCEPT ![cfg] = IF ok THEN @ + 1 ELSE @]
    /\ clientOpen' = [clientOpen EXCEPT ![cfg] = ok]
    /\ mainPc' = "listTools"

\* connectChildHttp(cfg): a new Client, connected once; a failed connect
\* rejects, main() rejects with it and the process exits.
connectChildHttp(cfg, ok) ==
    IF ok
    THEN /\ connects' = [connects EXCEPT ![cfg] = @ + 1]
         /\ clientOpen' = [clientOpen EXCEPT ![cfg] = TRUE]
         /\ mainPc' = "listTools"
    ELSE /\ mainPc' = "exited"
         /\ UNCHANGED <<connects, clientOpen>>

ConnectChild ==
    /\ mainPc = "connect"
    /\ \E ok \in BOOLEAN : connectChildHttp(cfgIndex, ok)
    /\ UNCHANGED <<cfgIndex, advertised, registeredTools>>
    /\ UNCHANGED requestVars
    /\ UNCHANGED translatorVars

\* The proxy entry main() registers for a tool: the translated schema, and
\* the client and the tool the callback closes over.
proxyEntry(client, tool) ==
    [inputSchema |-> jsonSchemaToZodSchema(tool.inputSchema),
     client |-> client,
     name |-> tool.name]

\* Variant: a later registration replaces the entry of the same name.
registerToolOverwrite(tools, name, entry) ==
    [threw |-> FALSE,
     tools |-> [n \in DOMAIN tools \cup {name} |-> IF n = name THEN entry ELSE tools[n]]]

\* server.registerTool(name, ...): McpServer refuses a name it already has
\* ("Tool <name> is already registered") and keeps the entry it had.
registerTool(tools, name, entry) ==
    IF name \in DOMAIN tools
    THEN [threw |-> TRUE, tools |-> tools]
    ELSE [threw |-> FALSE, tools |-> (name :> entry) @@ tools]

\* Variant: the loop registers the first listed tool only.
registerAllFirstOnly(acc, client, tools, i) ==
    IF Len(tools) = 0 THEN acc
    ELSE registerTool(acc.tools, tools[1].name, proxyEntry(client, tools[1]))

\* for (const tool of tools) { ... server.registerTool(...) }, from tool i on.
RECURSIVE registerAll(_, _, _, _)
registerAll(acc, client, tools, i) ==
    IF acc.threw \/ i > Len(tools) THEN acc
    ELSE IF proxyEntry(client, tools[i]).inputSchema = TypeError
    THEN [threw |-> TRUE, tools |-> acc.tools]
    ELSE registerAll(registerTool(acc.tools, tools[i].name, proxyEntry(client, tools[i])),
                     client, tools, i + 1)

\* client.listTools() and the registration loop; a rejected listTools(), a
\* translation or a registerTool() that throws ends main().
DiscoverTools ==
    /\ mainPc = "listTools"
    /\ \E ok \in BOOLEAN, listed \in ToolLists :
        IF ~ok
        THEN /\ mainPc' = "exited"
             /\ UNCHANGED <<cfgIndex, advertised, registeredTools>>
        ELSE LET done == registerAll([threw |-> FALSE, tools |-> registeredTools],
                                     cfgIndex, listed, 1)
             IN  /\ advertised' = [advertised EXCEPT ![cfgIndex] = listed]
                 /\ registeredTools' = done.tools
                 /\ IF done.threw
                    THEN mainPc' = "exited" /\ UNCHANGED cfgIndex
                    ELSE /\ cfgIndex' = cfgIndex + 1
                         /\ mainPc' = IF cfgIndex = NumChildren THEN "listen" ELSE "connect"
    /\ UNCHANGED <<connects, clientOpen>>
    /\ UNCHANGED requestVars
    /\ UNCHANGED translatorVars

\* Variant: app.listen() is reached although the loop has not finished.
ListenEarly ==
    /\ mainPc \in {"connect", "listen"}
    /\ cfgIndex > 1
    /\ mainPc' = "serving"
    /\ UNCHANGED buildVars
    /\ UNCHANGED requestVars
    /\ UNCHANGED translatorVars

\* app.post(path, handler); app.listen(port, cb): a listen error exits.
Listen ==
    /\ mainPc = "listen"
    /\ \E error \in BOOLEAN : mainPc' = IF error THEN "exited" ELSE "serving"
    /\ UNCHANGED buildVars
    /\ UNCHANGED requestVars
    /\ UNCHANGED translatorVars

(***************************************************************************)
(* The tools/call handler of the shared McpServer and the proxy callback.  *)
(***************************************************************************)
\* Variant: the callback closes over the loop's last client.
callToolLastClient(request, entry, args) ==
    [request |-> request, client |-> NumChildren, name |-> entry.name,
     arguments |-> IF args.kind = "undefined" THEN EmptyObj ELSE args]

\* The callback's client.callTool({ name: tool.name, arguments: args ?? {} }).
callTool(request, entry, args) ==
    [request |-> request, client |-> entry.client, name |-> entry.name,
     arguments |-> IF args.kind = "undefined" THEN EmptyObj ELSE args]

\* return await client.callTool(...): the callback's result.
callbackResult(payload) == payload

\* Variant: an unknown name is routed to the first child.
dispatchDefaultRoute(request, tools, name, arguments) ==
    IF name \notin DOMAIN tools
    THEN [kind |-> "forward",
          forward |-> [request |-> request, client |-> 1, name |-> name,
                       arguments |-> arguments]]
    ELSE LET parsed == safeParse(tools[name].inputSchema, arguments)
         IN  IF ~parsed.success
             THEN [kind |-> "error", error |-> ToolError("ValidationError")]
             ELSE [kind |-> "forward", forward |-> callTool(request, tools[name], parsed.data)]

\* What the server does with tools/call { name, arguments }: an unknown
\* name and arguments the stored schema rejects are answered with an error
\* and the callback is not run; otherwise the callback runs on the parsed
\* arguments.
dispatch(request, tools, name, arguments) ==
    IF name \notin DOMAIN tools
    THEN [kind |-> "error", error |-> ToolError("UnknownTool")]
    ELSE LET parsed == safeParse(tools[name].inputSchema, arguments)
         IN  IF ~parsed.success
             THEN [kind |-> "error", error |-> ToolError("ValidationError")]
             ELSE [kind |-> "forward", forward |-> callTool(request, tools[name], parsed.data)]

(***************************************************************************)
(* app.post("/mcp"): one inbound request.                                  *)
(***************************************************************************)
\* The handler up to its first wait on I/O: a new stateless transport,
\* server.connect(transport) (which replaces the transport the server was
\* connected to) and the dispatch of the request by handleRequest.  A
\* transport that answers with an event stream (enableJsonResponse false)
\* sends the response headers before it dispatches, one that answers with
\* JSON sends them with the response.
handleRequest(r, acceptsSSE) ==
    /\ mainPc = "serving"
    /\ hpc[r] = "idle"
    /\ \A q \in Requests : q < r => hpc[q] # "idle"
    /\ \E inbound \in InboundCalls :
        /\ input' = [input EXCEPT ![r] = inbound]
        /\ transport' = [transport EXCEPT ![r] = "open"]
        /\ serverTransport' = r
        /\ hpc' = [hpc EXCEPT ![r] = "awaitHandle"]
        /\ LET d == dispatch(r, registeredTools, inbound.name, inbound.arguments)
           IN  IF d.kind = "error"
               THEN /\ response' = [response EXCEPT ![r] = d.error]
                    /\ headersSent' = [headersSent EXCEPT ![r] = TRUE]
                    /\ call' = [call EXCEPT ![r] = "settled"]
                    /\ UNCHANGED invocations
               ELSE /\ invocations' = Append(invocations, d.forward)
                    /\ headersSent' = [headersSent EXCEPT ![r] = acceptsSSE]
                    /\ call' = [call EXCEPT ![r] = "pending"]
                    /\ UNCHANGED response
    /\ UNCHANGED <<resClosed, reply>>
    /\ UNCHANGED mainPc
    /\ UNCHANGED buildVars
    /\ UNCHANGED translatorVars

\* A POST /mcp of a caller that does not accept text/event-stream.
Post(r) == handleRequest(r, FALSE)

\* A POST /mcp of a caller that accepts text/event-stream.
PostSSE(r) == handleRequest(r, TRUE)

\* The invocation issued for request r.
invocationOf(r) ==
    CHOOSE i \in Range(invocations) : i.request = r

\* A response can still be written to the caller of r.
writable(r) ==
    /\ transport[r] = "open"
    /\ ~resClosed[r]
    /\ response[r].kind = "none"

\* Variant: calls on one client are served one at a time, in issue order.
UpstreamReplySerial(r) ==
    /\ call[r] = "pending"
    /\ \A q \in Requests :
        (q < r /\ call[q] = "pending") =>
            invocationOf(q).client # invocationOf(r).client
    /\ \E outcome \in {childResult(invocationOf(r).name), Failed} :
        /\ reply' = [reply EXCEPT ![r] = outcome]
        /\ response' =
            IF ~writable(r) THEN response
            ELSE IF outcome = Failed
                 THEN [response EXCEPT ![r] = ToolError("UpstreamError")]
                 ELSE [response EXCEPT ![r] = Result(callbackResult(outcome))]
    /\ call' = [call EXCEPT ![r] = "settled"]
    /\ headersSent' = [headersSent EXCEPT ![r] = @ \/ writable(r)]
    /\ UNCHANGED <<serverTransport, hpc, input, transport, resClosed, invocations>>
    /\ UNCHANGED mainPc
    /\ UNCHANGED buildVars
    /\ UNCHANGED translatorVars

\* Variant: a rejected client.callTool() escapes the handler and ends the
\* process.
UpstreamReplyCrash(r) ==
    /\ call[r] = "pending"
    /\ \E outcome \in {childResult(invocationOf(r).name), Failed} :
        /\ reply' = [reply EXCEPT ![r] = outcome]
        /\ response' =
            IF ~writable(r) \/ outcome = Failed THEN response
            ELSE [response EXCEPT ![r] = Result(callbackResult(outcome))]
        /\ mainPc' = IF outcome = Failed THEN "exited" ELSE mainPc
    /\ call' = [call EXCEPT ![r] = "settled"]
    /\ headersSent' = [headersSent EXCEPT ![r] = @ \/ writable(r)]
    /\ UNCHANGED <<serverTransport, hpc, input, transport, resClosed, invocations>>
    /\ UNCHANGED buildVars
    /\ UNCHANGED translatorVars

\* The upstream answers (or fails) the pending client.callTool() of r; the
\* callback returns and the server writes the result, or the error result a
\* rejected callback is turned into, to the transport of r.
UpstreamReply(r) ==
    /\ call[r] = "pending"
    /\ \E outcome \in (IF clientOpen[invocationOf(r).client]
                        THEN {childResult(invocationOf(r).name)} ELSE {})
                        \cup {Failed} :
        /\ reply' = [reply EXCEPT ![r] = outcome]
        /\ response' =
            IF ~writable(r) THEN response
            ELSE IF outcome = Failed
                 THEN [response EXCEPT ![r] = ToolError("UpstreamError")]
                 ELSE [response EXCEPT ![r] = Result(callbackResult(outcome))]
    /\ call' = [call EXCEPT ![r] = "settled"]
    /\ headersSent' = [headersSent EXCEPT ![r] = @ \/ writable(r)]
    /\ UNCHANGED <<serverTransport, hpc, input, transport, resClosed, invocations>>
    /\ UNCHANGED mainPc
    /\ UNCHANGED buildVars
    /\ UNCHANGED translatorVars

\* await transport.handleRequest(...) resolved: res.on('close', ...) is
\* registered and the handler returns.
RegisterClose(r) ==
    /\ hpc[r] = "awaitHandle"
    /\ hpc' = [hpc EXCEPT ![r] = "done"]
    /\ UNCHANGED <<serverTransport, input, transport, resClosed, headersSent, call,
                   reply, response, invocations>>
    /\ UNCHANGED mainPc
    /\ UNCHANGED buildVars
    /\ UNCHANGED translatorVars

\* Variant: the catch block answers whether headers were sent or not.
CatchAlwaysAnswers(r) ==
    /\ hpc[r] = "awaitHandle"
    /\ hpc' = [hpc EXCEPT ![r] = "caught"]
    /\ response' = IF ~resClosed[r]
                   THEN [response EXCEPT ![r] = RpcError(InternalError)]
                   ELSE response
    /\ headersSent' = [headersSent EXCEPT ![r] = TRUE]
    /\ UNCHANGED <<serverTransport, input, transport, resClosed, call, reply,
                   invocations>>
    /\ UNCHANGED mainPc
    /\ UNCHANGED buildVars
    /\ UNCHANGED translatorVars

\* await transport.handleRequest(...) rejected: the catch block, which
\* answers 500 / -32603 while no headers have been sent (an answer to a res
\* that has closed reaches no caller).
Catch(r) ==
    /\ hpc[r] = "awaitHandle"
    /\ hpc' = [hpc EXCEPT ![r] = "caught"]
    /\ response' = IF ~headersSent[r] /\ ~resClosed[r]
                   THEN [response EXCEPT ![r] = RpcError(InternalError)]
                   ELSE response
    /\ headersSent' = [headersSent EXCEPT ![r] = TRUE]
    /\ UNCHANGED <<serverTransport, input, transport, resClosed, call, reply,
                   invocations>>
    /\ UNCHANGED mainPc
    /\ UNCHANGED buildVars
    /\ UNCHANGED translatorVars

\* transport.close() of the transport of r: the transport is closed and
\* the server it was connected to is left without a transport.
transportClose(st, r) ==
    [transport |-> [st.transport EXCEPT ![r] = "closed"], server |-> NoTransport]

\* server.close(): closes the transport the server is connected to, if any.
serverClose(st) ==
    IF st.server = NoTransport THEN st
    ELSE [transport |-> [st.transport EXCEPT ![st.server] = "closed"],
          server |-> NoTransport]

\* The handler registered on 'close': transport.close(); server.close().
onClose(st, r) == serverClose(transportClose(st, r))

\* The 'close' listener is registered on the res of r: the handler ran to
\* its end.
closeHandler(r) == hpc[r] = "done"

\* Variant: the 'close' handler also closes the clients of the children.
CloseTearsDown(r) ==
    /\ hpc[r] # "idle"
    /\ ~resClosed[r]
    /\ resClosed' = [resClosed EXCEPT ![r] = TRUE]
    /\ LET st == [transport |-> transport, server |-> serverTransport]
           after == IF closeHandler(r) THEN onClose(st, r) ELSE st
       IN  /\ transport' = after.transport
           /\ serverTransport' = after.server
    /\ clientOpen' = IF closeHandler(r) THEN [u \in childrenConfig |-> FALSE]
                     ELSE clientOpen
    /\ UNCHANGED <<hpc, input, headersSent, call, reply, response, invocations>>
    /\ UNCHANGED mainPc
    /\ UNCHANGED <<cfgIndex, connects, advertised, registeredTools>>
    /\ UNCHANGED translatorVars

\* res emits 'close': the response has ended, or its caller has gone.
Close(r) ==
    /\ hpc[r] # "idle"
    /\ ~resClosed[r]
    /\ resClosed' = [resClosed EXCEPT ![r] = TRUE]
    /\ LET st == [transport |-> transport, server |-> serverTransport]
           after == IF closeHandler(r) THEN onClose(st, r) ELSE st
       IN  /\ transport' = after.transport
           /\ serverTransport' = after.server
    /\ UNCHANGED <<hpc, input, headersSent, call, reply, response, invocations>>
    /\ UNCHANGED mainPc
    /\ UNCHANGED buildVars
    /\ UNCHANGED translatorVars

Next ==
    \/ ConnectChild
    \/ DiscoverTools
    \/ Listen
    \/ \E r \in Requests : Post(r)
    \/ \E r \in Requests : UpstreamReply(r)
    \/ \E r \in Requests : RegisterClose(r)
    \/ \E r \in Requests : Close(r)

\* The gateway with callers that take a JSON response and with requests
\* whose handling raises no fault (what a caller accepts is read by the
\* catch block only, through res.headersSent).
Spec == Init /\ [][Next]_vars

\* main() has discovered the two children as they are, child A listing
\* "joke" and child B "name-age", and listens.
ServingInit ==
    /\ mainPc = "serving"
    /\ cfgIndex = NumChildren + 1
    /\ connects = [u \in childrenConfig |-> 1]
    /\ clientOpen = [u \in childrenConfig |-> TRUE]
    /\ advertised = <<(<<JokeTool>>), (<<NameAgeTool>>)>>
    /\ registeredTools =
        registerAll(registerAll([threw |-> FALSE, tools |-> [n \in {} |-> 0]],
                                1, <<JokeTool>>, 1),
                    2, <<NameAgeTool>>, 1).tools
    /\ noRequest
    /\ translatorIdle

\* The requests of the serving gateway, with callers that accept an event
\* stream and with requests whose transport.handleRequest() rejects.
ServingNext ==
    \/ \E r \in Requests : Post(r)
    \/ \E r \in Requests : PostSSE(r)
    \/ \E r \in Requests : UpstreamReply(r)
    \/ \E r \in Requests : RegisterClose(r)
    \/ \E r \in Requests : Catch(r)
    \/ \E r \in Requests : Close(r)

ServingSpec == ServingInit /\ [][ServingNext]_vars

(***************************************************************************)
(* The schema translator on its own: a schema a child may list is          *)
(* translated, as a property (jsonSchemaPropertyToZod) or as a tool's      *)
(* inputSchema (jsonSchemaToZodSchema), and a value is parsed with the     *)
(* zod schema returned.                                                    *)
(***************************************************************************)
\* Nesting depth of the schemas and of the values handed to the translator.
MaxDepth == 1

\* propertySchema.nullable === true
Nullable(schema) == schema @@ ("nullable" :> TRUE)

\* The schemas without a nested schema: single types, known and unknown,
\* enum lists, lists of types, a node without a type, no node.
LeafSchemas ==
    LET single == {[type |-> k] : k \in {"string", "number", "integer", "boolean",
                                           "array", "object", "null", "mystery"}}
        enums == {[type |-> "string", enum |-> <<"x", "y">>],
                  [type |-> "string", enum |-> <<>>],
                  [type |-> "string", enumNonArray |-> TRUE],
                  [types |-> <<"string", "null">>, enum |-> <<"x", "y">>]}
        lists == {[types |-> l] : l \in
                    {<<>>, <<"null">>, <<"string">>, <<"string", "null">>,
                     <<"null", "integer">>, <<"string", "number">>,
                     <<"number", "string">>, <<"string", "number", "null">>,
                     <<"null", "boolean", "string">>}}
        marked == {Nullable(n) : n \in single \cup
                    {[type |-> "string", enum |-> <<"x", "y">>],
                     [types |-> <<"string", "number">>],
                     [types |-> <<"boolean", "null">>]}}
    IN  single \cup enums \cup lists \cup marked
            \cup {[description |-> "d"], [type |-> "string", nullable |-> FALSE], NoSchema}

\* The schemas of nesting depth d at most: arrays of, and objects over the
\* properties a and b of, the schemas of depth d - 1.
RECURSIVE Schemas(_)
Schemas(d) ==
    IF d = 0 THEN LeafSchemas
    ELSE LET inner == Schemas(d - 1)
             b == [type |-> "string"]
             arrays == {[type |-> "array", items |-> i] : i \in inner}
             objects ==
                UNION {{[type |-> "object", properties |-> ("a" :> a)],
                        [type |-> "object", properties |-> ("a" :> a), required |-> {"a"}],
                        [type |-> "object", properties |-> ("a" :> a),
                         requiredNonArray |-> TRUE],
                        [type |-> "object", properties |-> ("a" :> a) @@ ("b" :> b)],
                        [type |-> "object", properties |-> ("a" :> a) @@ ("b" :> b),
                         required |-> {"a"}],
                        [type |-> "object", properties |-> ("a" :> a) @@ ("b" :> b),
                         required |-> {"b"}],
                        [type |-> "object", properties |-> ("a" :> a) @@ ("b" :> b),
                         required |-> {"a"}, nullable |-> TRUE],
                        [types |-> <<"object", "null">>, properties |-> ("a" :> a)]}
                       : a \in inner}
         IN  LeafSchemas \cup arrays \cup objects
                \cup {[type |-> "object", properties |-> NoEntries],
                      [type |-> "object", properties |-> NoEntries,
                       requiredNonArray |-> TRUE],
                      [type |-> "array", items |-> [type |-> "integer"], nullable |-> TRUE]}

\* The JSON values of nesting depth d at most.
RECURSIVE Values(_)
Values(d) ==
    LET leaves == {Null, Str("x"), Str("z"), Num("1"), Num("1.5"), Bool(TRUE),
                   EmptyObj, Arr(<<>>)}
    IN  IF d = 0 THEN leaves
        ELSE LET inner == Values(d - 1)
                 objects ==
                    UNION {{Obj("a" :> a), Obj(("a" :> a) @@ ("b" :> Str("x"))),
                            Obj(("a" :> a) @@ ("b" :> Num("1")))} : a \in inner}
             IN  leaves \cup {Arr(<<e>>) : e \in inner} \cup objects
                    \cup {Obj("b" :> Str("x")), Obj("b" :> Num("1"))}

\* What safeParse() may be handed: a value, or nothing (undefined).
Arguments == Values(MaxDepth) \cup {Undefined}

gatewayVars == <<mainPc, buildVars, requestVars>>

TranslatorInit ==
    /\ mainInit
    /\ tpc = "schema"
    /\ schemaIn \in Schemas(MaxDepth)
    /\ argument \in Arguments
    /\ validator = NoValidator
    /\ verdict = Fail

\* jsonSchemaPropertyToZod(propertySchema) of a property, an items or a
\* nested property.
Translate ==
    /\ tpc = "schema"
    /\ validator' = jsonSchemaPropertyToZod(schemaIn)
    /\ tpc' = "property"
    /\ UNCHANGED <<schemaIn, argument, verdict>>
    /\ UNCHANGED gatewayVars

\* jsonSchemaToZodSchema(tool.inputSchema), and the z.object() registerTool
\* makes of a raw shape.
TranslateInput ==
    /\ tpc = "schema"
    /\ validator' = jsonSchemaToZodSchema(schemaIn)
    /\ tpc' = "inputSchema"
    /\ UNCHANGED <<schemaIn, argument, verdict>>
    /\ UNCHANGED gatewayVars

\* The zod schema returned parses a value.
Validate ==
    /\ tpc \in {"property", "inputSchema"}
    /\ validator # TypeError
    /\ verdict' = safeParse(validator, argument)
    /\ tpc' = IF tpc = "property" THEN "propertyParsed" ELSE "inputSchemaParsed"
    /\ UNCHANGED <<schemaIn, argument, validator>>
    /\ UNCHANGED gatewayVars

TranslatorNext ==
    \/ Translate
    \/ TranslateInput
    \/ Validate

TranslatorSpec == TranslatorInit /\ [][TranslatorNext]_vars

(***************************************************************************)
(* Vocabulary of the properties.                                           *)
(***************************************************************************)
\* The discovery loop of main() has run to its end.
buildCompleted == cfgIndex > NumChildren

\* The tool names child u returned from listTools().
advertisedNames(u) == {advertised[u][i].name : i \in DOMAIN advertised[u]}

\* Request r reached the tools/call handler of the server.
dispatched(r) == call[r] # "none"

\* The client.callTool() calls issued on behalf of request r.
invocationsOf(r) == {i \in DOMAIN invocations : invocations[i].request = r}

\* The tool request r names is registered.
known(r) == input[r].name \in DOMAIN registeredTools

\* The arguments of request r pass the validator stored for its tool.
passes(r) ==
    /\ known(r)
    /\ safeParse(registeredTools[input[r].name].inputSchema, input[r].arguments).success

(***************************************************************************)
(* C1.  Name collision.                                                    *)
(***************************************************************************)
\* Children u1 < u2 have both been listed and both advertise tool name n.
collision(u1, u2, n) ==
    /\ u1 < u2
    /\ n \in advertisedNames(u1)
    /\ n \in advertisedNames(u2)

\* C1 as claimed: when two configured upstreams advertise the same tool
\* name, the registry build still completes and the entry for that name
\* routes to the upstream discovered last.
C1_LastWriteWins ==
    \A u1, u2 \in childrenConfig : \A n \in advertisedNames(u1) :
        collision(u1, u2, n) =>
            /\ buildCompleted
            /\ n \in DOMAIN registeredTools
            /\ registeredTools[n].client = u2

\* C1 as amended: when two configured upstreams advertise the same tool
\* name, the second registration of the name is refused, so the build does
\* not complete, main() exits without listening, no request is ever handled
\* and the entry for the name still routes to the upstream discovered first.
C1_CollisionFailsBuild ==
    \A u1, u2 \in childrenConfig : \A n \in advertisedNames(u1) :
        collision(u1, u2, n) =>
            /\ ~buildCompleted
            /\ mainPc = "exited"
            /\ \A r \in Requests : hpc[r] = "idle"
            /\ n \in DOMAIN registeredTools
            /\ registeredTools[n].client = u1

\* Both children advertised "joke" and the second registration ended main().
C1_Witness ==
    /\ "joke" \in advertisedNames(1)
    /\ "joke" \in advertisedNames(2)
    /\ mainPc = "exited"

(***************************************************************************)
(* C2.  Startup fatality.                                                  *)
(***************************************************************************)
\* Every configured child has a connected client and has been listed.
allDiscovered ==
    /\ buildCompleted
    /\ \A u \in childrenConfig : connects[u] = 1 /\ clientOpen[u]

\* C2: a failed connect or listTools ends main(): the gateway listens and
\* handles requests only with every configured child connected and listed,
\* a main() that has exited has handled no request, and it stays exited.
C2_StartupFailureIsFatal ==
    /\ [](mainPc \in {"listen", "serving"} => allDiscovered)
    /\ [](\A r \in Requests : hpc[r] # "idle" => mainPc = "serving")
    /\ [][mainPc = "exited" => mainPc' = "exited"]_vars

\* Child A was discovered and its tools registered, child B was unreachable:
\* main() has exited with a partial catalog that is never served.
C2_Witness ==
    /\ mainPc = "exited"
    /\ cfgIndex = 2
    /\ connects[2] = 0
    /\ DOMAIN registeredTools # {}

(***************************************************************************)
(* C3.  The registry is built before serving and read-only afterwards.     *)
(***************************************************************************)
\* C3: a request is handled only after the discovery of every configured
\* child has finished, and no step taken while the gateway serves changes
\* the registered tools (names, validators, owners).
C3_RegistryFrozenWhileServing ==
    /\ [](\A r \in Requests : hpc[r] # "idle" => allDiscovered)
    /\ [][mainPc = "serving" => registeredTools' = registeredTools]_vars

\* Two requests were handled against a catalog of two tools.
C3_Witness ==
    /\ mainPc = "serving"
    /\ DOMAIN registeredTools = {"joke", "name-age"}
    /\ \A r \in Requests : call[r] = "settled" /\ resClosed[r]

(***************************************************************************)
(* C4.  Routing of a validated call.                                       *)
(***************************************************************************)
\* C4: for every call of a registered tool whose arguments pass validation,
\* exactly one client.callTool() is issued, on the client of the child that
\* advertised the tool, under the tool's own name and with the parsed
\* arguments; a result written to the caller is the payload that child
\* answered, unchanged, and an error written for the call means the
\* invocation failed.
C4_ValidatedCallIsForwardedToOwner ==
    \A r \in Requests :
        (dispatched(r) /\ passes(r)) =>
            /\ Cardinality(invocationsOf(r)) = 1
            /\ LET i == invocationOf(r)
                   entry == registeredTools[input[r].name]
               IN  /\ i.name = input[r].name
                   /\ i.name \in advertisedNames(i.client)
                   /\ i.client = entry.client
                   /\ i.arguments = safeParse(entry.inputSchema, input[r].arguments).data
                   /\ response[r].kind = "result" =>
                        /\ reply[r] = childResult(i.name)
                        /\ response[r].body = reply[r]
                   /\ response[r].kind = "toolError" =>
                        /\ reply[r] = Failed
                        /\ response[r].body = "UpstreamError"

\* "name-age" was called with { name: "sam", extra: "x" }: child B was
\* invoked with { name: "sam" } and its payload was written to the caller.
C4_Witness ==
    \E r \in Requests :
        /\ input[r].name = "name-age"
        /\ response[r] = Result(childResult("name-age"))
        /\ invocationOf(r).client = 2
        /\ invocationOf(r).arguments = Obj("name" :> Str("sam"))

(***************************************************************************)
(* C5.  Validation failure.                                                *)
(***************************************************************************)
\* C5: a call of a registered tool whose arguments fail the tool's stored
\* validator is answered with a validation error and no client.callTool()
\* is issued for it; in particular "name-age", advertised with the required
\* string property name, rejects {} and { name: 1 }.
C5_InvalidArgumentsAreNotForwarded ==
    \A r \in Requests :
        /\ (dispatched(r) /\ known(r) /\ ~passes(r)) =>
            /\ response[r] = ToolError("ValidationError")
            /\ invocationsOf(r) = {}
            /\ reply[r] = "none"
        /\ (dispatched(r) /\ known(r) /\ input[r].name = "name-age"
                /\ (\/ "name" \notin DOMAIN input[r].arguments.val
                    \/ input[r].arguments.val["name"].kind # "string")) =>
            /\ response[r] = ToolError("ValidationError")
            /\ invocationsOf(r) = {}

\* "name-age" was called with {} and answered with a validation error.
C5_Witness ==
    \E r \in Requests :
        /\ input[r] = Call("name-age", EmptyObj)
        /\ known(r)
        /\ response[r] = ToolError("ValidationError")

(***************************************************************************)
(* C6.  The catalog is the union of what the children advertise.           *)
(***************************************************************************)
\* C6: once the discovery loop has completed, the registered tool names are
\* exactly the names the configured children advertised, and each entry is
\* owned by a child that advertised its name.
C6_CatalogIsUnionOfAdvertised ==
    buildCompleted =>
        /\ DOMAIN registeredTools = UNION {advertisedNames(u) : u \in childrenConfig}
        /\ \A n \in DOMAIN registeredTools :
            /\ registeredTools[n].name = n
            /\ n \in advertisedNames(registeredTools[n].client)

\* Child A advertised "joke", child B "name-age": the catalog holds both.
C6_Witness ==
    /\ mainPc = "serving"
    /\ advertised = <<(<<JokeTool>>), (<<NameAgeTool>>)>>
    /\ DOMAIN registeredTools = {"joke", "name-age"}

(***************************************************************************)
(* C7.  Unknown tool.                                                      *)
(***************************************************************************)
\* C7: a call that names a tool the registry does not hold is answered with
\* an unknown-tool error and no client.callTool() is issued for it.
C7_UnknownToolIsNotForwarded ==
    \A r \in Requests :
        (dispatched(r) /\ ~known(r)) =>
            /\ response[r] = ToolError("UnknownTool")
            /\ invocationsOf(r) = {}
            /\ reply[r] = "none"

\* "unknown-tool" was called against a catalog of two tools.
C7_Witness ==
    \E r \in Requests :
        /\ input[r].name = "unknown-tool"
        /\ DOMAIN registeredTools = {"joke", "name-age"}
        /\ response[r] = ToolError("UnknownTool")

(***************************************************************************)
(* C8.  Concurrent calls.                                                  *)
(***************************************************************************)
\* Request q is the next one the gateway can accept.
nextArrival(q) ==
    /\ mainPc = "serving"
    /\ hpc[q] = "idle"
    /\ \A p \in Requests : p < q => hpc[p] # "idle"

\* C8: while a call r is suspended on its upstream, every other request q
\* goes on: a new request can be accepted and dispatched, a pending call of
\* q can complete before r does (on another child or on the same one), the
\* handler of q can finish, the transport of q is closed by nothing but q's
\* own 'close', and an answer of q's upstream is dropped only when the
\* caller of q has gone.
C8_SuspendedCallDoesNotBlockOthers ==
    \A r, q \in Requests :
        (r # q /\ call[r] = "pending") =>
            /\ nextArrival(q) => ENABLED Post(q)
            /\ call[q] = "pending" => ENABLED UpstreamReply(q)
            /\ hpc[q] = "awaitHandle" => ENABLED RegisterClose(q)
            /\ transport[q] = "closed" => resClosed[q]
            /\ (reply[q] # "none" /\ response[q].kind = "none") => resClosed[q]

\* The first call is still waiting on child A while a later call of the
\* same tool has been answered with child A's payload.
C8_Witness ==
    /\ call[1] = "pending"
    /\ input[1].name = "joke"
    /\ input[2].name = "joke"
    /\ response[2] = Result(childResult("joke"))
    /\ invocationOf(1).client = invocationOf(2).client

(***************************************************************************)
(* C9.  A failed invocation is isolated to its call.                       *)
(***************************************************************************)
\* C9: when the invocation of call r has failed, the gateway is still
\* serving, the caller of r (unless gone) is answered with an error result
\* and never with a payload, the entry of the tool is still registered with
\* its owner connected, a further request can be accepted, and a later valid
\* call of the same tool is forwarded to the same child again.
C9_FailedInvocationIsIsolated ==
    /\ [](\A r \in Requests :
            reply[r] = Failed =>
                /\ mainPc = "serving"
                /\ known(r)
                /\ registeredTools[input[r].name].client = invocationOf(r).client
                /\ clientOpen[invocationOf(r).client]
                /\ response[r].kind # "result"
                /\ response[r].kind = "toolError" => response[r].body = "UpstreamError"
                /\ response[r].kind = "none" => resClosed[r]
                /\ \A q \in Requests : nextArrival(q) => ENABLED Post(q))
    /\ [][\A r, q \in Requests :
            (/\ reply[r] = Failed
             /\ hpc[q] = "idle"
             /\ hpc'[q] = "awaitHandle"
             /\ input'[q].name = input[r].name
             /\ passes(q)') =>
                /\ Len(invocations') = Len(invocations) + 1
                /\ invocations'[Len(invocations')].request = q
                /\ invocations'[Len(invocations')].client = invocationOf(r).client]_vars

\* The invocation of the first call failed and its caller got an error
\* result; a call of the same tool by the second request was answered with
\* the child's payload.
C9_Witness ==
    /\ reply[1] = Failed
    /\ response[1] = ToolError("UpstreamError")
    /\ input[2].name = input[1].name
    /\ response[2] = Result(childResult(input[2].name))

(***************************************************************************)
(* C10.  Upstream client connections.                                      *)
(***************************************************************************)
\* C10: a client connection is established at most once per configured
\* child and only by the discovery loop; a serving gateway holds exactly one
\* open connection per child, and no step taken while it serves (a request,
\* its completion, its close or its abandonment) closes or re-establishes
\* one.
C10_OneClientConnectionPerUpstream ==
    /\ [](\A u \in childrenConfig : connects[u] <= 1)
    /\ [](mainPc = "serving" =>
            \A u \in childrenConfig : connects[u] = 1 /\ clientOpen[u])
    /\ [][connects' # connects => (mainPc = "connect" /\ connects'[cfgIndex] = 1)]_vars
    /\ [][mainPc = "serving" => (connects' = connects /\ clientOpen' = clientOpen)]_vars

\* One request was abandoned while its call was pending, another was closed
\* by its 'close' handler; both children's clients are still connected.
C10_Witness ==
    /\ mainPc = "serving"
    /\ \E r, q \in Requests :
        /\ resClosed[r] /\ reply[r] # "none" /\ response[r].kind = "none"
        /\ transport[q] = "closed"
    /\ \A u \in childrenConfig : connects[u] = 1 /\ clientOpen[u]

(***************************************************************************)
(* Vocabulary of the translator's properties.                              *)
(***************************************************************************)
\* schemaIn was translated as a property, or as a tool's inputSchema, and
\* argument was parsed with the result.
parsedAsProperty == tpc = "propertyParsed"
parsedAsInput == tpc = "inputSchemaParsed"

\* An object schema with declared properties, whose required is absent or
\* an array.
objectSchema(schema) ==
    /\ Has(schema, "type")
    /\ schema.type = "object"
    /\ Has(schema, "properties")
    /\ DOMAIN schema.properties # {}
    /\ ~Has(schema, "requiredNonArray")

\* The required set of an object schema.
requiredOf(schema) == IF Has(schema, "required") THEN schema.required ELSE {}

\* Value v satisfies the validator of the property schema on its own.
satisfies(schema, v) == safeParse(jsonSchemaPropertyToZod(schema), v).success

(***************************************************************************)
(* C11.  Required properties.                                              *)
(***************************************************************************)
\* C11: for every object schema, translated as a tool's inputSchema or as a
\* property (a nested object), an object validates if and only if every
\* declared property it holds satisfies the property's own validator and
\* every declared property it lacks is outside the schema's required set.
C11_RequiredIffListed ==
    ((parsedAsProperty \/ parsedAsInput) /\ objectSchema(schemaIn)
            /\ argument.kind = "object") =>
        (verdict.success <=>
            \A key \in DOMAIN schemaIn.properties :
                IF key \in DOMAIN argument.val
                THEN satisfies(schemaIn.properties[key], argument.val[key])
                ELSE key \notin requiredOf(schemaIn))

(***************************************************************************)
(* C12.  Totality of the translation.                                      *)
(***************************************************************************)
\* C12: whatever schema is translated (absent, empty, of an unknown type,
\* with an empty list of types, with a required, properties or enum of the
\* wrong shape, nested), as a property or as a tool's inputSchema, the
\* translation returns a zod schema and does not throw.
C12_TranslationIsTotal ==
    tpc # "schema" => (validator # TypeError /\ validator # NoValidator)

(***************************************************************************)
(* C13.  Nullable.                                                         *)
(***************************************************************************)
\* The schema carries nullable: true; the schema without its nullable mark.
markedNullable(schema) == Has(schema, "nullable") /\ schema.nullable = TRUE
Unmarked(schema) == [m \in DOMAIN schema \ {"nullable"} |-> schema[m]]

\* C13: a schema of a type other than null that is marked nullable: true
\* accepts a value if and only if the value is null or the same schema
\* without the mark accepts it; a schema of type string, number, integer,
\* boolean, array or object that is not marked rejects null.
C13_NullableAcceptsNull ==
    (parsedAsProperty /\ ~Has(schemaIn, "absent")) =>
        /\ (markedNullable(schemaIn)
                /\ ~(Has(schemaIn, "type") /\ schemaIn.type = "null")) =>
            (verdict.success <=>
                (argument = Null \/ satisfies(Unmarked(schemaIn), argument)))
        /\ (~markedNullable(schemaIn) /\ Has(schemaIn, "type")
                /\ schemaIn.type \in {"string", "number", "integer", "boolean",
                                      "array", "object"}
                /\ argument = Null) =>
            ~verdict.success

\* { type: "string", nullable: true } was translated and accepted null.
C13_Witness ==
    /\ parsedAsProperty
    /\ schemaIn = [type |-> "string", nullable |-> TRUE]
    /\ argument = Null
    /\ verdict.success

ofType(v, type) ==
    CASE type = "string" -> v.kind = "string"
      [] type = "number" -> v.kind = "number"
      [] type = "integer" -> v.kind = "number" /\ v.val \in Integral
      [] type = "boolean" -> v.kind = "boolean"
      [] type = "array" -> v.kind = "array"
      [] type = "object" -> v.kind = "object"
      [] type = "null" -> v.kind = "null"
      [] OTHER -> TRUE

\* The schema has no member but its list of types.
typesOnly(schema) == DOMAIN schema = {"types"}

\* C15: for a schema whose type is a list (without repeated entries): when
\* the list holds null and exactly one other type, the zod schema returned
\* is the nullable of the translation of that other type, and accepts null
\* and the values of that type; in every other case it is the translation
\* of the first listed type (of no type for an empty list), and a value is
\* accepted only as a value of the first listed type, whatever other types
\* the list names.
C15_TypeListIsFirstTypeOrNullable ==
    ((tpc = "property" \/ parsedAsProperty) /\ Has(schemaIn, "types")) =>
        LET type == schemaIn.types
            nonNullTypes == {t \in Range(type) : t # "null"}
        IN  IF "null" \in Range(type) /\ Cardinality(nonNullTypes) = 1
            THEN LET only == CHOOSE t \in nonNullTypes : TRUE
                 IN  /\ validator =
                            ZNullable(jsonSchemaPropertyToZod(WithType(schemaIn, only)))
                     /\ (parsedAsProperty /\ typesOnly(schemaIn)) =>
                            (verdict.success <=>
                                (argument = Null \/ ofType(argument, only)))
            ELSE /\ validator =
                        jsonSchemaPropertyToZod(
                            IF type = <<>> THEN WithoutType(schemaIn)
                            ELSE WithType(schemaIn, type[1]))
                 /\ (parsedAsProperty /\ typesOnly(schemaIn) /\ type # <<>>) =>
                        (verdict.success <=> ofType(argument, type[1]))

\* { type: ["string", "number"] } was translated and rejected the number 1.
C15_Witness ==
    /\ parsedAsProperty
    /\ schemaIn = [types |-> <<"string", "number">>]
    /\ argument = Num("1")
    /\ ~verdict.success

(***************************************************************************)
(* C16.  A fault while a request is handled.                               *)
(***************************************************************************)
\* C16: when the handling of request r raises a fault, the catch block
\* answers its caller with the envelope of error code -32603 and message
\* "Internal server error" if no response headers have been sent on res
\* (and res has not closed), and writes nothing if headers have been sent;
\* either way main() keeps serving, the registered tools, the clients and
\* the other requests' responses are untouched and a further request can be
\* accepted; such an envelope is written by the catch block only.
C16_FaultIsAnsweredOnceOrNotAtAll ==
    /\ [][\A r \in Requests :
            (hpc[r] = "awaitHandle" /\ hpc'[r] = "caught") =>
                /\ (~headersSent[r] /\ ~resClosed[r]) =>
                    response'[r] = [kind |-> "rpcError",
                                    body |-> "Internal server error",
                                    code |-> -32603]
                /\ headersSent[r] => response'[r] = response[r]
                /\ \A q \in Requests \ {r} : response'[q] = response[q]
                /\ mainPc' = "serving"
                /\ registeredTools' = registeredTools
                /\ clientOpen' = clientOpen]_vars
    /\ [](\A r \in Requests :
            hpc[r] = "caught" =>
                /\ mainPc = "serving"
                /\ \A q \in Requests : nextArrival(q) => ENABLED Post(q))
    /\ [](\A r \in Requests :
            response[r].kind = "rpcError" =>
                /\ hpc[r] = "caught"
                /\ response[r].code = -32603)

\* The first request faulted before any header was sent and was answered
\* with the envelope; the second, of a caller that accepts an event stream,
\* faulted after its headers were sent and nothing was written to it.
C16_Witness ==
    /\ mainPc = "serving"
    /\ hpc[1] = "caught"
    /\ response[1].kind = "rpcError"
    /\ hpc[2] = "caught"
    /\ headersSent[2]
    /\ ~resClosed[2]
    /\ response[2].kind = "none"

(***************************************************************************)
(* C17.  The transport of a request is closed.                             *)
(***************************************************************************)
\* The handler of r has ended (it returned or its catch block ran) and res
\* has closed: no code that could still close the transport of r is left to
\* run.
over(r) == hpc[r] \in {"done", "caught"} /\ resClosed[r]

\* C17: every request that connected the shared server to a new transport
\* has that transport closed by the time the request is over, whether it
\* completed normally, its res closed before the 'close' handler was
\* registered, or its handling raised a fault.
C17_TransportIsClosedWhenOver ==
    \A r \in Requests : over(r) => transport[r] = "closed"

(***************************************************************************)
(* C18.  The shared server and the requests in flight.                     *)
(***************************************************************************)
\* Request q is in flight: its tool call waits for the upstream and its res
\* is open.
inFlight(q) == call[q] = "pending" /\ ~resClosed[q]

\* C18: the handler of a request connects the shared server to its new
\* transport only when the server is not connected to the transport of a
\* request in flight, and the 'close' of a request neither closes the
\* transport of another request in flight nor takes the server off it.
C18_RequestsInFlightKeepTheServer ==
    [][\A r \in Requests :
            /\ (hpc[r] = "idle" /\ hpc'[r] # "idle") =>
                (serverTransport = NoTransport \/ ~inFlight(serverTransport))
            /\ (~resClosed[r] /\ resClosed'[r]) =>
                \A q \in Requests \ {r} :
                    inFlight(q) =>
                        /\ transport'[q] = transport[q]
                        /\ serverTransport = q => serverTransport' = q]_vars

====
